---- MODULE Spec2Model ----
(***************************************************************************)
(* Model of Hudsonrock_api_check.py: the batch dispatch pipeline of main() *)
(* (a pool of worker threads running fetch_data, the collecting loop that  *)
(* absorbs completed fetches into the result set, the join of the pool and *)
(* the writer) and the SIGINT handler that sets shutdown_flag.             *)
(***************************************************************************)
EXTENDS Integers, Sequences, FiniteSets, TLC

(* ------------------------------ bounds -------------------------------- *)
\* Spec draws 0..MaxBatches batches; PoolSpec runs PoolBatches batches.
MaxBatches == 2
PoolBatches == 5
\* PoolSpec, CancelSpec and MalformedSpec limit the request failures the
\* network injects in one run.
\* NormSpec cleans every string of at most MaxLen characters.
MaxLen == 9
\* BatchSpec splits every set of at most MaxDomains domains, listed in
\* MaxRotation + 1 different orders.
MaxDomains == 101
MaxRotation == 2
\* ParseSpec runs up to ParseBatches batches.
ParseBatches == 1
PoolFaults == 1

(* ------------------------- program constants -------------------------- *)
batch_size == 50
max_attempts == 5
max_workers == 4
\* the loop gives up one failure too early
last_attempt_early == max_attempts - 2
last_attempt == 4
backoff_base == 2

\* A domain that the API may list but that is never part of the input.
ForeignDomain == 0

VARIABLES
    input_domains,   \* the validated set (line 107), read-only during dispatch
    net,             \* the environment: fault budget and the bodies it answers with
    shutdown_flag,   \* threading.Event (line 28)
    pc,              \* position of the main thread in main()
    submitted,       \* number of batches handed to executor.submit
    fstate,          \* per batch: position of its fetch_data call
    attempt,         \* per batch: loop variable of line 137
    requests,        \* per batch: number of requests.post calls issued
    sleeps,          \* per batch: the time.sleep arguments, in order
    failures,        \* per batch: requests that raised RequestException
    outcome,         \* per batch: which return statement ended fetch_data
    data,            \* per batch: the value returned on success
    yielded,         \* futures already produced by as_completed
    cur,             \* the future the collecting loop is looking at (0: none)
    idx,             \* position of the loop of line 190 in the current data
    results,         \* the result set (line 174)
    ticks,           \* pbar.update calls
    file,            \* contents of results.txt
    contrib,         \* history: domains inserted on behalf of each batch
    mutators,        \* history: threads that have modified results
    preCancel,       \* history: shutdown_flag was set before the first submit
    exc,             \* an exception is propagating out of main()
    parseFails,      \* per batch: requests whose body did not parse
    processed,       \* history, per batch: passes of the loop body (lines 188-200)
    domain,          \* clean_domain: the string being cleaned
    once,            \* clean_domain: the result of the first application
    applied,         \* clean_domain: number of applications so far
    order,           \* batcher: list(input_domains), the iteration order of the set
    batches          \* batcher: the list built at line 171 (None before)

vars == <<input_domains, net, shutdown_flag, pc, submitted, fstate, attempt,
          requests, sleeps, failures, outcome, data, yielded, cur, idx, results, ticks,
          file, contrib, mutators, preCancel, exc, parseFails, processed,
          domain, once, applied, order, batches>>

dispatchVars == <<input_domains, net, shutdown_flag, pc, submitted, fstate,
                  attempt, requests, sleeps, failures, outcome, data, yielded,
                  cur, idx, results, ticks, file, contrib, mutators, preCancel,
                  exc, parseFails, processed>>

\* the variables of the pure-function specifications
normVars == <<domain, once, applied>>

batchVars == <<order, batches>>

\* results.txt: whether main() has written it, and the lines it holds
Unwritten == [written |-> FALSE, lines |-> {}]

Written(lines) == [written |-> TRUE, lines |-> lines]

(* --------------------------- domain cleaning -------------------------- *)
\* strings are sequences of characters
Chars == {"w", ".", "a"}

StartsWith(s, prefix) ==
    Len(s) >= Len(prefix) /\ SubSeq(s, 1, Len(prefix)) = prefix

EndsWith(s, c) == Len(s) > 0 /\ s[Len(s)] = c

\* lines 44-50
clean_domain(d) ==
    LET d1 == IF StartsWith(d, <<"w", "w", "w", ".">>)
              THEN SubSeq(d, 5, Len(d)) ELSE d
    IN IF EndsWith(d1, ".") THEN SubSeq(d1, 1, Len(d1) - 1) ELSE d1

(* ------------------------------ batching ------------------------------ *)
\* the list of line 171: whether it has been built, and its batches
NotBuilt == [built |-> FALSE, list |-> << >>]

\* list(input_domains): the iteration order of the set 1..n is not specified;
\* the ascending order started at r + 1 stands for it
ListOf(n, r) == [i \in 1..n |-> ((i - 1 + r) % n) + 1]

\* a slice that is one element short
SliceShort(l, i, j) ==
    SubSeq(l, i + 1, IF j - 1 < Len(l) THEN j - 1 ELSE Len(l))

\* l[i:j] for 0 <= i <= j
Slice(l, i, j) == SubSeq(l, i + 1, IF j < Len(l) THEN j ELSE Len(l))

\* range(0, n, 50)
ChunkStarts(n) == [k \in 1..((n + batch_size - 1) \div batch_size)
                     |-> batch_size * (k - 1)]

\* len(range(0, len(input_domains), 50))
total_batches == (Cardinality(input_domains) + batch_size - 1) \div batch_size

BatchIds == 1..total_batches

(* --------------------------- response bodies -------------------------- *)
Record(hasE, e, hasC, c) ==
    [hasEmployeeAt |-> hasE, employeeAt |-> e, hasClientAt |-> hasC, clientAt |-> c]

\* [] : a success with no records
BodyEmpty == << >>
\* one record whose employee list names an input domain and a foreign one
BodyEmployee == << Record(TRUE, <<1, ForeignDomain>>, FALSE, << >>) >>
\* a record with an empty employee list and a client list, then a record
\* with neither key
BodyClient == << Record(TRUE, << >>, TRUE, <<2, ForeignDomain>>),
                 Record(FALSE, << >>, FALSE, << >>) >>

AllBodies == {BodyEmpty, BodyEmployee, BodyClient}

\* the JSON array [1]: its item is a number, not an object
BodyMalformed == << [number |-> 1] >>

\* a record with both lists non-empty
BodyBoth == << Record(TRUE, <<1>>, TRUE, <<2>>) >>

\* line 192: "'employeeAt' in item" raises TypeError for a number
IsObject(item) == "hasEmployeeAt" \in DOMAIN item

SeqRange(s) == {s[i] : i \in 1..Len(s)}

\* "if ... if" instead of "if ... elif": both lists are read
SelectedBoth(item) ==
    (IF item.hasEmployeeAt /\ Len(item.employeeAt) > 0
     THEN {d \in SeqRange(item.employeeAt) : d \in input_domains} ELSE {})
    \cup
    (IF item.hasClientAt /\ Len(item.clientAt) > 0
     THEN {d \in SeqRange(item.clientAt) : d \in input_domains} ELSE {})

\* the membership test "if d in input_domains" left out
SelectedUnfiltered(item) ==
    IF item.hasEmployeeAt /\ Len(item.employeeAt) > 0
    THEN SeqRange(item.employeeAt)
    ELSE IF item.hasClientAt /\ Len(item.clientAt) > 0
         THEN SeqRange(item.clientAt)
         ELSE {}

\* lines 192-199: the list a record contributes, filtered by the input set
Selected(item) ==
    IF item.hasEmployeeAt /\ Len(item.employeeAt) > 0
    THEN {d \in SeqRange(item.employeeAt) : d \in input_domains}
    ELSE IF item.hasClientAt /\ Len(item.clientAt) > 0
         THEN {d \in SeqRange(item.clientAt) : d \in input_domains}
         ELSE {}

\* line 189: truthiness of future.result()
Truthy(b) == outcome[b] = "Succeeded" /\ Len(data[b]) > 0

(* ------------------------------ the pool ------------------------------ *)
Running == {b \in BatchIds : fstate[b] \in {"ready", "inflight"}}

Queued == {b \in BatchIds : fstate[b] = "queued"}

\* one thread per submitted work item
WorkerAvailableUnbounded == Cardinality(Running) <= total_batches

\* ThreadPoolExecutor(max_workers=4): a work item starts only on a free worker
WorkerAvailable == Cardinality(Running) < max_workers

\* the work queue is FIFO
QueueHead(b) == b \in Queued /\ \A c \in Queued : b <= c

RECURSIVE SumOver(_, _)
SumOver(f, S) ==
    IF S = {} THEN 0
    ELSE LET x == CHOOSE y \in S : TRUE IN f[x] + SumOver(f, S \ {x})

\* failed requests so far in the whole run
FaultsUsed == SumOver(failures, BatchIds)

\* linear instead of exponential
BackoffLinear(a) == (a + 1) * backoff_base

\* line 164: (2 ** attempt) * 2
Backoff(a) == (2 ^ a) * backoff_base

(* ----------------------------- exceptions ----------------------------- *)
\* what requests.post and raise_for_status raise (line 152 names them)
RequestErrors == {"ConnectionError", "Timeout", "HTTPError"}

\* what response.json() raises on a body that is not JSON
ParseError == "JSONDecodeError"

\* response.json() raises the decoder's ValueError, which is no RequestException
CaughtRequestOnly(kind) == kind \in RequestErrors

\* line 152: except requests.exceptions.RequestException; the JSONDecodeError
\* of requests derives from it (through InvalidJSONError)
Caught(kind) == kind \in RequestErrors \cup {ParseError}

(* ------------------------------- Init --------------------------------- *)
DispatchInit(sizes, faults, bodies, errors) ==
    /\ input_domains \in {1..n : n \in sizes}
    /\ net \in {[faults |-> f, bodies |-> bodies, errors |-> errors] : f \in faults}
    /\ shutdown_flag = FALSE
    /\ pc = "submit"
    /\ submitted = 0
    /\ fstate = [b \in BatchIds |-> "unsubmitted"]
    /\ attempt = [b \in BatchIds |-> 0]
    /\ requests = [b \in BatchIds |-> 0]
    /\ sleeps = [b \in BatchIds |-> << >>]
    /\ failures = [b \in BatchIds |-> 0]
    /\ outcome = [b \in BatchIds |-> "none"]
    /\ data = [b \in BatchIds |-> << >>]
    /\ yielded = {}
    /\ cur = 0
    /\ idx = 0
    /\ results = {}
    /\ ticks = 0
    /\ file = Unwritten
    /\ contrib = [b \in BatchIds |-> {}]
    /\ mutators = {}
    /\ preCancel = FALSE
    /\ exc = FALSE
    /\ parseFails = [b \in BatchIds |-> 0]
    /\ processed = [b \in BatchIds |-> 0]

\* clean_domain has not been called
NormIdle == domain = << >> /\ once = << >> /\ applied = 0

\* line 171 has not run
BatchIdle == order = << >> /\ batches = NotBuilt

InitWith(sizes, faults, bodies, errors) ==
    DispatchInit(sizes, faults, bodies, errors) /\ NormIdle /\ BatchIdle

\* a set that splits into exactly k batches, the last one of a single domain
SizeFor(k) == IF k = 0 THEN 0 ELSE batch_size * (k - 1) + 1

Init == InitWith({SizeFor(k) : k \in 0..MaxBatches},
                 {max_attempts * MaxBatches}, AllBodies, RequestErrors)

(* --------------------------- signal handler --------------------------- *)
\* lines 33-36
signal_handler ==
    /\ pc \notin {"done", "crashed"}
    /\ ~shutdown_flag
    /\ shutdown_flag' = TRUE
    /\ preCancel' = (pc = "submit" /\ submitted = 0)
    /\ UNCHANGED <<input_domains, net, pc, submitted, fstate, attempt, requests,
                   sleeps, failures, outcome, data, yielded, cur, idx, results, ticks,
                   file, contrib, mutators,
                   exc, parseFails, processed, normVars, batchVars>>

(* ----------------------------- fetch_data ----------------------------- *)
Return(b, kind, value) ==
    /\ fstate' = [fstate EXCEPT ![b] = "done"]
    /\ outcome' = [outcome EXCEPT ![b] = kind]
    /\ data' = [data EXCEPT ![b] = value]

\* a free worker takes the oldest work item and enters fetch_data
Start(b) ==
    /\ QueueHead(b)
    /\ WorkerAvailable
    /\ fstate' = [fstate EXCEPT ![b] = "ready"]
    /\ UNCHANGED <<input_domains, net, shutdown_flag, pc, submitted, attempt,
                   requests, sleeps, failures, outcome, data, yielded, cur, idx, results,
                   ticks, file, contrib, mutators, preCancel,
                   exc, parseFails, processed, normVars, batchVars>>

\* the flag is looked at on entry only, not after a sleep
AttemptFirstOnly(b) ==
    /\ fstate[b] = "ready"
    /\ IF shutdown_flag /\ attempt[b] = 0
       THEN /\ Return(b, "Cancelled", << >>)
            /\ UNCHANGED requests
       ELSE /\ fstate' = [fstate EXCEPT ![b] = "inflight"]
            /\ requests' = [requests EXCEPT ![b] = @ + 1]
            /\ UNCHANGED <<outcome, data>>
    /\ UNCHANGED <<input_domains, net, shutdown_flag, pc, submitted, attempt,
                   sleeps, failures, yielded, cur, idx, results, ticks, file,
                   contrib, mutators, preCancel,
                   exc, parseFails, processed, normVars, batchVars>>

\* the request is issued without looking at the flag
AttemptUnchecked(b) ==
    /\ fstate[b] = "ready"
    /\ fstate' = [fstate EXCEPT ![b] = "inflight"]
    /\ requests' = [requests EXCEPT ![b] = @ + 1]
    /\ UNCHANGED <<input_domains, net, shutdown_flag, pc, submitted, attempt,
                   sleeps, failures, outcome, data, yielded, cur, idx, results,
                   ticks, file, contrib, mutators, preCancel,
                   exc, parseFails, processed, normVars, batchVars>>

\* lines 134-148: the flag checks, then the request of this attempt
Attempt(b) ==
    /\ fstate[b] = "ready"
    /\ IF shutdown_flag
       THEN /\ Return(b, "Cancelled", << >>)
            /\ UNCHANGED requests
       ELSE /\ fstate' = [fstate EXCEPT ![b] = "inflight"]
            /\ requests' = [requests EXCEPT ![b] = @ + 1]
            /\ UNCHANGED <<outcome, data>>
    /\ UNCHANGED <<input_domains, net, shutdown_flag, pc, submitted, attempt,
                   sleeps, failures, yielded, cur, idx, results, ticks, file, contrib,
                   mutators, preCancel,
                   exc, parseFails, processed, normVars, batchVars>>

\* the worker inserts the domains of its response itself
RespondOkAbsorbing(b) ==
    /\ fstate[b] = "inflight"
    /\ \E body \in net.bodies :
          /\ Return(b, "Succeeded", body)
          /\ results' = results \cup UNION {Selected(body[i]) : i \in 1..Len(body)}
    /\ mutators' = mutators \cup {"worker"}
    /\ UNCHANGED <<input_domains, net, shutdown_flag, pc, submitted, attempt,
                   requests, sleeps, failures, yielded, cur, idx, ticks, file,
                   contrib, preCancel,
                   exc, parseFails, processed, normVars, batchVars>>

\* lines 149-150: the request succeeded, its body is returned
RespondOk(b) ==
    /\ fstate[b] = "inflight"
    /\ \E body \in net.bodies : Return(b, "Succeeded", body)
    /\ UNCHANGED <<input_domains, net, shutdown_flag, pc, submitted, attempt,
                   requests, sleeps, failures, yielded, cur, idx, results, ticks, file,
                   contrib, mutators, preCancel,
                   exc, parseFails, processed, normVars, batchVars>>

\* lines 149-164: raise_for_status or response.json() raised; if the except
\* clause catches it, give up after the last attempt, otherwise sleep and go
\* round the loop
RespondFail(b) ==
    /\ fstate[b] = "inflight"
    /\ FaultsUsed < net.faults
    /\ failures' = [failures EXCEPT ![b] = @ + 1]
    /\ \E kind \in net.errors :
          /\ parseFails' = [parseFails EXCEPT
                               ![b] = IF kind = ParseError THEN @ + 1 ELSE @]
          /\ IF ~Caught(kind)
             THEN /\ Return(b, "Raised", << >>)   \* the exception leaves fetch_data
                  /\ UNCHANGED <<attempt, sleeps>>
             ELSE IF attempt[b] = last_attempt
             THEN /\ Return(b, "Failed", << >>)
                  /\ UNCHANGED <<attempt, sleeps>>
             ELSE /\ sleeps' = [sleeps EXCEPT ![b] = Append(@, Backoff(attempt[b]))]
                  /\ attempt' = [attempt EXCEPT ![b] = @ + 1]
                  /\ IF attempt[b] + 1 < max_attempts
                     THEN /\ fstate' = [fstate EXCEPT ![b] = "ready"]
                          /\ UNCHANGED <<outcome, data>>
                     ELSE Return(b, "Failed", << >>)   \* range(5) is exhausted
    /\ UNCHANGED <<input_domains, net, shutdown_flag, pc, submitted, requests,
                   yielded, cur, idx, results, ticks, file, contrib, mutators,
                   preCancel,
                   exc, processed, normVars, batchVars>>

(* -------------------------------- main -------------------------------- *)
\* lines 179-182: one executor.submit per batch, in batch order
Submit ==
    /\ pc = "submit"
    /\ IF submitted < total_batches
       THEN /\ submitted' = submitted + 1
            /\ fstate' = [fstate EXCEPT ![submitted + 1] = "queued"]
            /\ pc' = pc
       ELSE /\ pc' = "collect"
            /\ UNCHANGED <<submitted, fstate>>
    /\ UNCHANGED <<input_domains, net, shutdown_flag, attempt, requests, sleeps, failures,
                   outcome, data, yielded, cur, idx, results, ticks, file,
                   contrib, mutators, preCancel,
                   exc, parseFails, processed, normVars, batchVars>>

\* future.result() raises for an exhausted fetch and the exception leaves main()
YieldRaising(b) ==
    /\ pc = "collect"
    /\ fstate[b] = "done"
    /\ b \notin yielded
    /\ yielded' = yielded \cup {b}
    /\ IF shutdown_flag
       THEN /\ pc' = "shutdown"
            /\ UNCHANGED <<cur, idx>>
       ELSE IF outcome[b] = "Failed"
            THEN /\ pc' = "aborted"
                 /\ UNCHANGED <<cur, idx>>
            ELSE /\ pc' = "absorb"
                 /\ cur' = b
                 /\ idx' = 1
    /\ UNCHANGED <<input_domains, net, shutdown_flag, submitted, fstate, attempt,
                   requests, sleeps, failures, outcome, data, results, ticks, file,
                   contrib, mutators, preCancel,
                   exc, parseFails, processed, normVars, batchVars>>

\* the process exits instead of breaking out of the loop
YieldExit(b) ==
    /\ pc = "collect"
    /\ fstate[b] = "done"
    /\ b \notin yielded
    /\ yielded' = yielded \cup {b}
    /\ IF shutdown_flag
       THEN /\ pc' = "done"
            /\ UNCHANGED <<cur, idx>>
       ELSE /\ pc' = "absorb"
            /\ cur' = b
            /\ idx' = 1
    /\ UNCHANGED <<input_domains, net, shutdown_flag, submitted, fstate, attempt,
                   requests, sleeps, failures, outcome, data, results, ticks, file,
                   contrib, mutators, preCancel,
                   exc, parseFails, processed, normVars, batchVars>>

\* the flag is looked at after the outcome has been absorbed
YieldBreakLate(b) ==
    /\ pc = "collect"
    /\ fstate[b] = "done"
    /\ b \notin yielded
    /\ yielded' = yielded \cup {b}
    /\ IF shutdown_flag
       THEN /\ pc' = "shutdown"
            /\ results' = results \cup
                  (IF outcome[b] = "Succeeded"
                   THEN UNION {Selected(data[b][i]) : i \in 1..Len(data[b])}
                   ELSE {})
            /\ UNCHANGED <<cur, idx>>
       ELSE /\ pc' = "absorb"
            /\ cur' = b
            /\ idx' = 1
            /\ UNCHANGED results
    /\ UNCHANGED <<input_domains, net, shutdown_flag, submitted, fstate, attempt,
                   requests, sleeps, failures, outcome, data, ticks, file,
                   contrib, mutators, preCancel,
                   exc, parseFails, processed, normVars, batchVars>>

\* the loop does not look at the flag
YieldNoBreak(b) ==
    /\ pc = "collect"
    /\ fstate[b] = "done"
    /\ b \notin yielded
    /\ yielded' = yielded \cup {b}
    /\ pc' = "absorb"
    /\ cur' = b
    /\ idx' = 1
    /\ UNCHANGED <<input_domains, net, shutdown_flag, submitted, fstate, attempt,
                   requests, sleeps, failures, outcome, data, results, ticks, file,
                   contrib, mutators, preCancel,
                   exc, parseFails, processed, normVars, batchVars>>

\* lines 185-189: as_completed yields a finished future; break when the flag is set
Yield(b) ==
    /\ pc = "collect"
    /\ fstate[b] = "done"
    /\ b \notin yielded
    /\ yielded' = yielded \cup {b}
    /\ IF shutdown_flag
       THEN /\ pc' = "shutdown"
            /\ UNCHANGED <<cur, idx, exc>>
       ELSE IF outcome[b] = "Raised"
       THEN /\ exc' = TRUE            \* future.result() re-raises (line 188)
            /\ pc' = "shutdown"       \* the finally clause runs
            /\ UNCHANGED <<cur, idx>>
       ELSE /\ pc' = "absorb"
            /\ cur' = b
            /\ idx' = 1
            /\ UNCHANGED exc
    /\ UNCHANGED <<input_domains, net, shutdown_flag, submitted, fstate, attempt,
                   requests, sleeps, failures, outcome, data, results, ticks, file,
                   contrib, mutators, preCancel,
                   parseFails, processed, normVars, batchVars>>

\* the loop ends after the first future
ExhaustedEarly ==
    /\ pc = "collect"
    /\ yielded # {} \/ BatchIds = {}
    /\ pc' = "shutdown"
    /\ UNCHANGED <<input_domains, net, shutdown_flag, submitted, fstate, attempt,
                   requests, sleeps, failures, outcome, data, yielded, cur, idx, results,
                   ticks, file, contrib, mutators, preCancel,
                   exc, parseFails, processed, normVars, batchVars>>

\* line 185: as_completed is exhausted
Exhausted ==
    /\ pc = "collect"
    /\ yielded = BatchIds
    /\ pc' = "shutdown"
    /\ UNCHANGED <<input_domains, net, shutdown_flag, submitted, fstate, attempt,
                   requests, sleeps, failures, outcome, data, yielded, cur, idx, results,
                   ticks, file, contrib, mutators, preCancel,
                   exc, parseFails, processed, normVars, batchVars>>

\* assignment instead of update: earlier inserts are lost
AbsorbItemOverwrite ==
    /\ pc = "absorb"
    /\ Truthy(cur)
    /\ idx <= Len(data[cur])
    /\ results' = Selected(data[cur][idx])
    /\ contrib' = [contrib EXCEPT ![cur] = @ \cup Selected(data[cur][idx])]
    /\ mutators' = mutators \cup {"main"}
    /\ idx' = idx + 1
    /\ UNCHANGED <<input_domains, net, shutdown_flag, pc, submitted, fstate,
                   attempt, requests, sleeps, failures, outcome, data, yielded, cur,
                   ticks, file, preCancel,
                   exc, parseFails, processed, normVars, batchVars>>

\* lines 190-199: one record of the current data
AbsorbItem ==
    /\ pc = "absorb"
    /\ Truthy(cur)
    /\ idx <= Len(data[cur])
    /\ IF IsObject(data[cur][idx])
       THEN /\ results' = results \cup Selected(data[cur][idx])
            /\ contrib' = [contrib EXCEPT ![cur] = @ \cup Selected(data[cur][idx])]
            /\ mutators' = mutators \cup {"main"}
            /\ idx' = idx + 1
            /\ UNCHANGED <<pc, exc>>
       ELSE /\ exc' = TRUE            \* TypeError, caught by no except clause
            /\ pc' = "shutdown"       \* the finally clause runs
            /\ UNCHANGED <<results, contrib, mutators, idx>>
    /\ UNCHANGED <<input_domains, net, shutdown_flag, submitted, fstate,
                   attempt, requests, sleeps, failures, outcome, data, yielded, cur, ticks,
                   file, preCancel,
                   parseFails, processed, normVars, batchVars>>

\* pbar.update(1) indented under "if data"
TickIfData ==
    /\ pc = "absorb"
    /\ ~Truthy(cur) \/ idx > Len(data[cur])
    /\ ticks' = IF Truthy(cur) THEN ticks + 1 ELSE ticks
    /\ processed' = [processed EXCEPT ![cur] = @ + 1]
    /\ pc' = "collect"
    /\ cur' = 0
    /\ idx' = 0
    /\ UNCHANGED <<input_domains, net, shutdown_flag, submitted, fstate, attempt,
                   requests, sleeps, failures, outcome, data, yielded, results, file,
                   contrib, mutators, preCancel,
                   exc, parseFails, normVars, batchVars>>

\* line 200: pbar.update(1)
Tick ==
    /\ pc = "absorb"
    /\ ~Truthy(cur) \/ idx > Len(data[cur])
    /\ ticks' = ticks + 1
    /\ processed' = [processed EXCEPT ![cur] = @ + 1]
    /\ pc' = "collect"
    /\ cur' = 0
    /\ idx' = 0
    /\ UNCHANGED <<input_domains, net, shutdown_flag, submitted, fstate, attempt,
                   requests, sleeps, failures, outcome, data, yielded, results, file,
                   contrib, mutators, preCancel,
                   exc, parseFails, normVars, batchVars>>

\* line 206: executor.shutdown(wait=False) returns at once
Shutdown ==
    /\ pc = "shutdown"
    /\ pc' = "join"
    /\ UNCHANGED <<input_domains, net, shutdown_flag, submitted, fstate, attempt,
                   requests, sleeps, failures, outcome, data, yielded, cur, idx, results,
                   ticks, file, contrib, mutators, preCancel,
                   exc, parseFails, processed, normVars, batchVars>>

\* the pool is left without waiting for its workers
JoinNoWait ==
    /\ pc = "join"
    /\ pc' = "write"
    /\ UNCHANGED <<input_domains, net, shutdown_flag, submitted, fstate, attempt,
                   requests, sleeps, failures, outcome, data, yielded, cur, idx,
                   results, ticks, file, contrib, mutators, preCancel,
                   exc, parseFails, processed, normVars, batchVars>>

\* line 178: leaving the with block is shutdown(wait=True); the workers run
\* every queued work item before they exit. A pending exception then leaves
\* main() and lines 210-217 are not reached.
Join ==
    /\ pc = "join"
    /\ \A b \in BatchIds : fstate[b] = "done"
    /\ pc' = IF exc THEN "crashed" ELSE "write"
    /\ UNCHANGED <<input_domains, net, shutdown_flag, submitted, fstate, attempt,
                   requests, sleeps, failures, outcome, data, yielded, cur, idx, results,
                   ticks, file, contrib, mutators, preCancel,
                   exc, parseFails, processed, normVars, batchVars>>

\* lines 210-215
Write ==
    /\ pc = "write"
    /\ file' = Written(results)
    /\ pc' = "done"
    /\ UNCHANGED <<input_domains, net, shutdown_flag, submitted, fstate, attempt,
                   requests, sleeps, failures, outcome, data, yielded, cur, idx, results,
                   ticks, contrib, mutators, preCancel,
                   exc, parseFails, processed, normVars, batchVars>>

Worker == \E b \in BatchIds : Start(b) \/ Attempt(b) \/ RespondOk(b) \/ RespondFail(b)

Main == Submit \/ (\E b \in BatchIds : Yield(b)) \/ Exhausted \/ AbsorbItem
        \/ Tick \/ Shutdown \/ Join \/ Write

Next == signal_handler \/ Worker \/ Main

Spec == Init /\ [][Next]_vars

\* The threads are scheduled fairly, a request ends within REQUEST_TIMEOUT
\* and a sleep ends: every enabled step of the program is eventually taken.
\* The signal is under no obligation to arrive.
FairSpec == Spec /\ WF_vars(Worker \/ Main)

\* Cancellation under fair scheduling, with few request failures.
CancelInit == InitWith({SizeFor(k) : k \in 0..MaxBatches}, {PoolFaults},
                       AllBodies, RequestErrors)

CancelSpec == CancelInit /\ [][Next]_vars /\ WF_vars(Worker \/ Main)

\* The pool under load: more batches than workers, few faults, one body.
PoolInit == InitWith({SizeFor(k) : k \in 0..PoolBatches}, {PoolFaults}, {BodyEmployee},
                     RequestErrors)

PoolSpec == PoolInit /\ [][Next]_vars

(* ----------------------- pure-function specifications ---------------- *)
\* no batch and nothing running: the dispatch stands still
DispatchIdle == DispatchInit({0}, {0}, {}, {})

Strings(n) == UNION {[1..k -> Chars] : k \in 0..n}

NormInit ==
    /\ DispatchIdle /\ BatchIdle
    /\ domain \in Strings(MaxLen)
    /\ once = << >>
    /\ applied = 0

\* one call of clean_domain on the value of the previous call
Clean ==
    /\ applied < 2
    /\ domain' = clean_domain(domain)
    /\ once' = IF applied = 0 THEN clean_domain(domain) ELSE once
    /\ applied' = applied + 1
    /\ UNCHANGED <<dispatchVars, batchVars>>

NormSpec == NormInit /\ [][Clean]_vars

BatchInit ==
    /\ DispatchInit(0..MaxDomains, {0}, {}, {})
    /\ NormIdle /\ BatchIdle

\* line 171
MakeBatches ==
    /\ ~batches.built
    /\ \E r \in 0..MaxRotation :
          LET n == Cardinality(input_domains)
              lst == ListOf(n, r)
              starts == ChunkStarts(n)
          IN /\ order' = lst
             /\ batches' = [built |-> TRUE,
                            list |-> [k \in 1..Len(starts) |->
                                        Slice(lst, starts[k], starts[k] + batch_size)]]
    /\ UNCHANGED <<dispatchVars, normVars>>

BatchSpec == BatchInit /\ [][MakeBatches]_vars

\* Bodies whose items are not objects.
MalformedInit == InitWith({SizeFor(k) : k \in 0..MaxBatches}, {PoolFaults},
                          {BodyEmployee, BodyMalformed}, RequestErrors)

MalformedSpec == MalformedInit /\ [][Next]_vars

\* Success statuses whose body does not parse, mixed with request failures.
ParseInit == InitWith({SizeFor(k) : k \in 0..ParseBatches},
                      {max_attempts * ParseBatches}, {BodyEmployee},
                      RequestErrors \cup {ParseError})

ParseSpec == ParseInit /\ [][Next]_vars

\* Records with both lists, with an empty employee list, with no list.
AbsorbInit == InitWith({SizeFor(k) : k \in 0..MaxBatches}, {max_attempts},
                       {BodyEmpty, BodyBoth, BodyClient}, RequestErrors)

AbsorbSpec == AbsorbInit /\ [][Next]_vars

(* ------------------------------ helpers ------------------------------- *)
Done(b) == fstate[b] = "done"

Terminal(b) == outcome[b] \in {"Succeeded", "Failed", "Cancelled"}

\* what the records of a returned body contribute
Contribution(b) ==
    IF outcome[b] = "Succeeded"
    THEN UNION {Selected(data[b][i]) : i \in 1..Len(data[b])}
    ELSE {}

\* the domains a record lists under the relation it is read by
Listed(item) ==
    IF item.hasEmployeeAt /\ Len(item.employeeAt) > 0
    THEN SeqRange(item.employeeAt)
    ELSE IF item.hasClientAt /\ Len(item.clientAt) > 0
         THEN SeqRange(item.clientAt)
         ELSE {}

ListedBy(b) ==
    IF outcome[b] = "Succeeded"
    THEN UNION {Listed(data[b][i]) : i \in 1..Len(data[b])}
    ELSE {}

(* ------------------------------- claims ------------------------------- *)

\* C1: at no time are more than 4 fetch_data calls executing, however many
\* batches there are.
C1_PoolBound == Cardinality(Running) <= 4

C1_Witness == Cardinality(Running) = 4 /\ Queued # {}

\* C2: without cancellation, a fetch all of whose requests failed has issued
\* exactly 5 requests, has returned the Failed outcome, and no domain was
\* inserted on its behalf.
C2_Exhaustion ==
    \A b \in BatchIds :
        (~shutdown_flag /\ Done(b) /\ failures[b] = requests[b])
            => /\ requests[b] = 5
               /\ outcome[b] = "Failed"
               /\ contrib[b] = {}
               /\ (b \in yielded /\ cur # b => Contribution(b) = {})

C2_Witness ==
    \E b \in BatchIds :
        /\ ~shutdown_flag /\ outcome[b] = "Failed" /\ requests[b] = 5
        /\ b \in yielded /\ cur # b /\ pc = "collect"

\* C3: without cancellation, a fetch whose first 4 requests failed and whose
\* 5th succeeded returns Succeeded after sleeping 2, 4, 8, 16 seconds, one
\* sleep between consecutive requests and none after the last; no fetch ever
\* sleeps 32 seconds.
C3_Backoff ==
    \A b \in BatchIds :
        /\ 32 \notin SeqRange(sleeps[b])
        /\ (Done(b) /\ requests[b] > 0 /\ outcome[b] # "Cancelled")
               => Len(sleeps[b]) = requests[b] - 1
        /\ (~shutdown_flag /\ Done(b) /\ failures[b] = 4 /\ requests[b] = 5)
               => /\ outcome[b] = "Succeeded"
                  /\ sleeps[b] = <<2, 4, 8, 16>>

C3_Witness ==
    \E b \in BatchIds :
        /\ ~shutdown_flag /\ Done(b) /\ failures[b] = 4 /\ requests[b] = 5
        /\ outcome[b] = "Succeeded"

\* C4: when the flag is set before the first submit, no request is ever
\* issued, the result set stays empty and the file written is empty.
C4_CancelBeforeDispatch ==
    preCancel => /\ \A b \in BatchIds : requests[b] = 0
                 /\ results = {}
                 /\ (pc = "done" => file = Written({}))

C4_Witness == preCancel /\ pc = "done" /\ total_batches >= 2

\* C5: the result set only holds input domains; a listed domain outside the
\* input is never inserted, and after a run without cancellation every input
\* domain listed under the relation read from a record is in the result set.
C5_Filter ==
    /\ results \subseteq input_domains
    /\ \A b \in BatchIds : (ListedBy(b) \ input_domains) \cap results = {}
    /\ (pc = "done" /\ ~shutdown_flag)
           => \A b \in BatchIds : (ListedBy(b) \cap input_domains) \subseteq results

C5_Witness ==
    /\ pc = "done" /\ ~shutdown_flag
    /\ \E b \in BatchIds : /\ ForeignDomain \in ListedBy(b)
                           /\ ListedBy(b) \cap results # {}

\* C6: after a run without cancellation the result set is the union of what
\* the succeeded fetches contribute, whatever the order of completion and
\* collection; the file holds the same set.
C6_OrderIndependent ==
    (pc = "done" /\ ~shutdown_flag)
        => /\ results = UNION {Contribution(b) : b \in BatchIds}
           /\ file = Written(results)

C6_Witness ==
    /\ pc = "done" /\ ~shutdown_flag
    /\ \E b, c \in BatchIds : /\ Contribution(b) # {} /\ Contribution(c) # {}
                              /\ Contribution(b) # Contribution(c)

\* C7: the result set is only ever changed by the collecting thread, inside
\* its absorb step, and it is read by the writer only when no absorb is in
\* progress and every worker has finished.
C7_SingleWriter ==
    [][ /\ (results' # results => pc = "absorb" /\ pc' = "absorb")
        /\ mutators' \subseteq {"main"}
        /\ (file' # file => /\ pc = "write" /\ results' = results
                            /\ \A b \in BatchIds : Done(b)) ]_vars

C7_Witness == pc = "absorb" /\ results # {} /\ Running # {}

\* C8: after a fetch has exhausted its attempts the run goes on: unless it is
\* cancelled it reaches the end with every other batch fetched, every
\* succeeded outcome in the result set and the file written.
C8_Completed ==
    /\ pc = "done" /\ file = Written(results)
    /\ \A c \in BatchIds : /\ Done(c) /\ requests[c] >= 1
                           /\ Contribution(c) \subseteq results

C8_FailureDoesNotAbort ==
    (\E b \in BatchIds : outcome[b] = "Failed") ~> (shutdown_flag \/ C8_Completed)

C8_Witness ==
    /\ ~shutdown_flag /\ C8_Completed
    /\ \E b, c \in BatchIds : outcome[b] = "Failed" /\ Contribution(c) # {}

\* C9: whenever the signal arrives, the run still reaches the writer, and
\* the file written is exactly the result set; the run never ends without it.
C9_CancelWrites ==
    /\ [](pc = "done" => file = Written(results))
    /\ (shutdown_flag ~> pc = "done")

C9_Witness ==
    /\ pc = "done" /\ shutdown_flag /\ file = Written(results) /\ results # {}
    /\ \E b \in BatchIds : outcome[b] = "Cancelled"

\* C10: the dispatch terminates, and once the executor block is left every
\* submitted fetch has returned with a terminal outcome; a fetch cancelled
\* before its first request has issued none.
C10_Termination ==
    /\ <>(pc = "write")
    /\ [](pc \in {"write", "done"}
            => /\ submitted = total_batches
               /\ \A b \in BatchIds : Done(b) /\ Terminal(b))

C10_Witness ==
    /\ pc = "write" /\ shutdown_flag
    /\ \E b, c \in BatchIds : /\ outcome[b] = "Cancelled" /\ requests[b] = 0
                              /\ outcome[c] = "Succeeded"
Pending(b) == fstate[b] \in {"unsubmitted", "queued"}

Min(a, b) == IF a < b THEN a ELSE b

\* C11: a batch whose fetch has not started when the flag is set never issues
\* a request; the fetches already started return by themselves; the loop,
\* once it finds the flag set, absorbs nothing more and main() goes on to the
\* writer although batches were left unfetched.
C11_CancelPending ==
    /\ [](\A b \in BatchIds : Pending(b) => requests[b] = 0)
    /\ [][ /\ \A b \in BatchIds :
                (shutdown_flag /\ requests[b] = 0) => requests'[b] = 0
           /\ (shutdown_flag /\ pc = "collect")
                => (pc' \in {"collect", "shutdown"} /\ results' = results) ]_vars
    /\ (shutdown_flag ~> (/\ pc \in {"write", "done"}
                          /\ \A b \in BatchIds : Done(b) /\ Terminal(b)))

C11_Witness ==
    /\ pc = "write" /\ shutdown_flag
    /\ \E b, c \in BatchIds : /\ outcome[b] = "Cancelled" /\ requests[b] = 0
                              /\ outcome[c] = "Cancelled" /\ requests[c] >= 1

\* C12: whatever the requests of a batch return, no exception leaves main():
\* the other batches are processed and the writer is reached.
C12_NoAbort == ~exc /\ pc # "crashed"

\* C13: a request whose body does not parse counts as a failed attempt: it is
\* followed by the backoff of its attempt, at most 5 requests are issued, the
\* fifth failure returns Failed and nothing is raised.
C13_ParseFailureRetried ==
    \A b \in BatchIds :
        /\ outcome[b] # "Raised"
        /\ parseFails[b] > 0
             => /\ requests[b] <= 5
                /\ requests[b] >= failures[b]
                /\ sleeps[b] = SubSeq(<<2, 4, 8, 16>>, 1, Min(failures[b], 4))
                /\ (failures[b] = 5 <=> outcome[b] = "Failed")
                /\ (fstate[b] = "ready" => attempt[b] = failures[b])

C13_Witness ==
    \E b \in BatchIds :
        /\ ~shutdown_flag /\ parseFails[b] = 5 /\ outcome[b] = "Failed"
        /\ requests[b] = 5 /\ b \in yielded /\ pc = "collect"
\* C14: cleaning a cleaned domain changes nothing.
C14_Idempotent == applied = 2 => domain = once

RECURSIVE SumLen(_, _)
SumLen(l, k) == IF k = 0 THEN 0 ELSE Len(l[k]) + SumLen(l, k - 1)

Places(l, d) == {<<k, i>> \in (1..Len(l)) \X (1..batch_size) :
                    i <= Len(l[k]) /\ l[k][i] = d}

\* C15: the batches partition the validated set: their lengths add up to N,
\* every domain is in exactly one place of one batch, every batch has 1 to 50
\* domains, and there are ceil(N / 50) of them.
C15_Partition ==
    batches.built =>
        LET l == batches.list
            N == Cardinality(input_domains)
        IN /\ SumLen(l, Len(l)) = N
           /\ \A d \in input_domains : Cardinality(Places(l, d)) = 1
           /\ \A k \in 1..Len(l) : Len(l[k]) >= 1 /\ Len(l[k]) <= 50
           /\ 50 * Len(l) >= N /\ 50 * Len(l) < N + 50
           /\ (N = 0 => l = << >>)

C15_Witness ==
    /\ batches.built /\ Len(batches.list) = 3
    /\ Len(batches.list[2]) = 50 /\ Len(batches.list[3]) = 1
    /\ order[1] # 1
\* C16: a request is only issued by a step that finds the flag unset, on the
\* first attempt and after each sleep; a fetch that finds the flag set
\* returns Cancelled without a request, and issues none afterwards.
C16_CheckBeforeRequest ==
    [][ \A b \in BatchIds :
          /\ requests'[b] # requests[b]
               => /\ ~shutdown_flag /\ fstate[b] = "ready"
                  /\ requests'[b] = requests[b] + 1
          /\ (shutdown_flag /\ fstate[b] = "ready" /\ fstate'[b] # "ready")
               => outcome'[b] = "Cancelled" /\ requests'[b] = requests[b]
          /\ outcome[b] = "Cancelled"
               => outcome'[b] = "Cancelled" /\ requests'[b] = requests[b] ]_vars

C16_Witness ==
    \E b \in BatchIds : outcome[b] = "Cancelled" /\ requests[b] >= 2

Processed == {b \in BatchIds : processed[b] = 1}

\* C17 as claimed: when the writer is reached, every Succeeded outcome has
\* been absorbed exactly once.
C17_AlwaysAbsorbed ==
    pc \in {"write", "done"}
        => \A b \in BatchIds : outcome[b] = "Succeeded" => processed[b] = 1

\* C17, amended: no outcome is absorbed twice; when the writer is reached the
\* result set is the union of the outcomes the loop took up while the flag
\* was unset, at most one yielded future (the one at which the set flag was
\* found) is left out, and with the flag never set every Succeeded outcome
\* has been absorbed exactly once.
C17_AbsorbedOnce ==
    /\ \A b \in BatchIds : processed[b] <= 1
    /\ pc \in {"write", "done"}
         => /\ results = UNION {Contribution(b) : b \in Processed}
            /\ Cardinality(yielded \ Processed) <= 1
            /\ yielded # Processed => shutdown_flag
            /\ ~shutdown_flag
                 => \A b \in BatchIds : outcome[b] = "Succeeded" => processed[b] = 1

C17_Witness ==
    /\ pc = "write" /\ shutdown_flag
    /\ \E b, c \in BatchIds :
          /\ outcome[b] = "Succeeded" /\ processed[b] = 0
          /\ outcome[c] = "Succeeded" /\ processed[c] = 1 /\ Contribution(c) # {}

\* C18 as claimed: when the run ends there is one tick per batch whose fetch
\* has completed.
C18_TickPerCompleted ==
    pc = "done" => ticks = Cardinality({b \in BatchIds : Done(b)})

\* C18, amended: there is exactly one tick per batch the loop has processed,
\* Succeeded or Failed; the ticks never exceed the number of completed
\* batches; a run that ends without cancellation has one tick per batch.
C18_TickPerProcessed ==
    /\ ticks = SumOver(processed, BatchIds)
    /\ \A b \in BatchIds :
          /\ processed[b] <= 1
          /\ processed[b] = 1 => Done(b) /\ outcome[b] \in {"Succeeded", "Failed"}
    /\ ticks <= Cardinality({b \in BatchIds : Done(b)})
    /\ ticks <= total_batches
    /\ (pc = "done" /\ ~shutdown_flag) => ticks = total_batches

C18_Witness ==
    /\ pc = "done" /\ shutdown_flag
    /\ ticks < Cardinality({b \in BatchIds : Done(b)})
    /\ \E b \in BatchIds : processed[b] = 1 /\ outcome[b] = "Failed"

\* the domains under a key of a record, none when the key is absent
Under(has, list) == IF has THEN SeqRange(list) ELSE {}

\* C19: each record adds its employee domains when it has any, otherwise its
\* client domains, filtered by the input set; the result set changes for no
\* other reason, so Failed, Cancelled and empty outcomes leave it as it is.
C19_Precedence ==
    [][ /\ (pc = "absorb" /\ idx' = idx + 1)
          => LET item == data[cur][idx]
                 e == Under(item.hasEmployeeAt, item.employeeAt)
                 c == Under(item.hasClientAt, item.clientAt)
             IN results' = results \cup ((IF e # {} THEN e ELSE c) \cap input_domains)
        /\ results' # results
          => /\ pc = "absorb" /\ idx' = idx + 1
             /\ outcome[cur] = "Succeeded" /\ data[cur] # << >> ]_vars

C19_Witness ==
    /\ pc = "done" /\ results = {1} /\ 2 \in input_domains
    /\ \E b, c \in BatchIds : /\ data[b] = BodyBoth /\ processed[b] = 1
                              /\ outcome[c] = "Failed" /\ processed[c] = 1

\* C20: once the flag is set and the loop is at its head or behind it, the
\* result set does not change any more, no absorb starts, and the file
\* written is the result set of that moment.
C20_FrozenAfterCancel ==
    [][ (shutdown_flag /\ pc \in {"collect", "shutdown", "join", "write"})
          => /\ results' = results /\ contrib' = contrib
             /\ pc' # "absorb"
             /\ pc' = "done" => file' = Written(results) ]_vars

C20_Witness ==
    /\ pc = "done" /\ shutdown_flag /\ file = Written(results)
    /\ \E b \in BatchIds :
          /\ outcome[b] = "Succeeded" /\ b \in yielded /\ processed[b] = 0
          /\ Contribution(b) # {} /\ Contribution(b) \cap results = {}
====
